---- MODULE Spec2Model ----
EXTENDS Integers, Sequences, FiniteSets, TLC

(***************************************************************************)
(* Model of strongswan.Collector (src/strongswan/collector.go): one scrape *)
(* (Collect) with its two fetch steps listSas / listCrts, the projection   *)
(* of tunnels, child associations and certificates into samples, and the   *)
(* health check (Check, src/strongswan/checker.go).                        *)
(***************************************************************************)

VARIABLES
    sessions,   \* what viciClientFn has returned: <<[owner, ok, closes]>>
    clock,      \* the wall clock read by time.Now()
    ops,        \* number of Collect / Check calls started so far
    proc        \* per goroutine: position and locals of its Collect / Check

vars == <<sessions, clock, ops, proc>>

----------------------------------------------------------------------------
\* Bounds of the model.

MaxMsgs == 2        \* records per streamed response
MaxOps == 2         \* Collect / Check calls per behaviour
MaxClock == 3       \* last instant of the wall clock
MaxSerial == 300    \* largest serial number of the range that is formatted
MaxNames == 2       \* alternate names per group of a certificate

Procs == {1, 2}     \* goroutines that may call into the Collector
Serial == {1}       \* the one goroutine of the sequential specification

----------------------------------------------------------------------------
\* vici field trees: a node is a scalar string, a list of strings or a
\* nested message (ordered keys with a node each).

Str(s) == [t |-> "str", s |-> s, l |-> <<>>, kv |-> <<>>]
Lst(l) == [t |-> "list", s |-> "", l |-> l, kv |-> <<>>]
Msg(kv) == [t |-> "msg", s |-> "", l |-> <<>>, kv |-> kv]
Absent == [t |-> "absent", s |-> "", l |-> <<>>, kv |-> <<>>]
KV(k, v) == [k |-> k, v |-> v]

\* m.Keys(): the keys of a message in insertion order.
Keys(m) == [n \in 1..Len(m.kv) |-> m.kv[n].k]

HasKey(m, k) == \E n \in 1..Len(m.kv) : m.kv[n].k = k

\* m.Get(k): the node stored under k, nil when there is none.
Get(m, k) ==
    IF HasKey(m, k)
    THEN m.kv[CHOOSE n \in 1..Len(m.kv) : m.kv[n].k = k].v
    ELSE Absent

\* m.Err(): a record whose success flag is set and is not "yes".
MsgErr(m) == HasKey(m, "success") /\ Get(m, "success") # Str("yes")

----------------------------------------------------------------------------
\* vici.UnmarshalMessage into the tagged struct fields.

\* strconv on the decimal strings the model uses.
AtoiTable ==
    [s \in {"0", "1", "2", "5", "7"} |->
        CASE s = "0" -> 0 [] s = "1" -> 1 [] s = "2" -> 2
          [] s = "5" -> 5 [] s = "7" -> 7]

\* Whether the node found under a key fits a string, integer or []string
\* field.
StrOK(v) == v.t = "str"
IntOK(v) == v.t = "str" /\ v.s \in DOMAIN AtoiTable
ListOK(v) == v.t = "list"

StrField(m, k) == Get(m, k).s
IntField(m, k) == IF Get(m, k).t = "str" THEN AtoiTable[Get(m, k).s] ELSE 0
ListField(m, k) == Get(m, k).l

ChildStrKeys ==
    {"name", "uniqueid", "state", "encap", "encr-alg", "integ-alg", "dh-group"}
ChildIntKeys ==
    {"encr-keysize", "integ-keysize", "bytes-in", "packets-in", "use-in",
     "bytes-out", "packets-out", "use-out", "rekey-time", "life-time",
     "install-time"}
ChildListKeys == {"local-ts", "remote-ts"}

\* Whether a node decodes as a ChildIkeSa struct.
ChildOK(n) ==
    /\ n.t = "msg"
    /\ \A e \in 1..Len(n.kv) :
        /\ n.kv[e].k \in ChildStrKeys => StrOK(n.kv[e].v)
        /\ n.kv[e].k \in ChildIntKeys => IntOK(n.kv[e].v)
        /\ n.kv[e].k \in ChildListKeys => ListOK(n.kv[e].v)

\* The ChildIkeSa struct a node decodes to.
UnmarshalChild(n) ==
    [Name |-> StrField(n, "name"),
     UniqueID |-> StrField(n, "uniqueid"),
     State |-> StrField(n, "state"),
     Encap |-> StrField(n, "encap"),
     EncAlg |-> StrField(n, "encr-alg"),
     EncKey |-> IntField(n, "encr-keysize"),
     IntegAlg |-> StrField(n, "integ-alg"),
     IntegKey |-> IntField(n, "integ-keysize"),
     DHGroup |-> StrField(n, "dh-group"),
     BytesIn |-> IntField(n, "bytes-in"),
     PacketsIn |-> IntField(n, "packets-in"),
     LastInSec |-> IntField(n, "use-in"),
     BytesOut |-> IntField(n, "bytes-out"),
     PacketsOut |-> IntField(n, "packets-out"),
     LastOutSec |-> IntField(n, "use-out"),
     RekeySec |-> IntField(n, "rekey-time"),
     LifetimeSec |-> IntField(n, "life-time"),
     EstablishSec |-> IntField(n, "install-time"),
     LocalTS |-> ListField(n, "local-ts"),
     RemoteTS |-> ListField(n, "remote-ts")]

IkeStrKeys ==
    {"uniqueid", "state", "initiator", "nat-local", "nat-remote", "nat-fake",
     "nat-any", "encr-alg", "integ-alg", "dh-group"}
IkeIntKeys ==
    {"version", "encr-keysize", "integ-keysize", "established", "rekey-time",
     "reauth-time"}

\* Whether the child-sas node decodes as map[string]ChildIkeSa.
ChildrenOK(n) == n.t = "msg" /\ \A c \in 1..Len(n.kv) : ChildOK(n.kv[c].v)

\* UnmarshalChildren naming each child after the key it is nested under.
UnmarshalChildrenNameFromKey(n) ==
    [c \in 1..Len(n.kv) |->
        [k |-> n.kv[c].k,
         c |-> [UnmarshalChild(n.kv[c].v) EXCEPT !.Name = n.kv[c].k]]]

\* The Children map, as its entries [k, c] (a Go map: no order is kept).
UnmarshalChildren(n) ==
    [c \in 1..Len(n.kv) |-> [k |-> n.kv[c].k, c |-> UnmarshalChild(n.kv[c].v)]]

\* Whether UnmarshalMessage(rawMsg, &ikeSa) returns no error.
IkeSaOK(m) ==
    \A e \in 1..Len(m.kv) :
        /\ m.kv[e].k \in IkeStrKeys => StrOK(m.kv[e].v)
        /\ m.kv[e].k \in IkeIntKeys => IntOK(m.kv[e].v)
        /\ m.kv[e].k = "child-sas" => ChildrenOK(m.kv[e].v)

\* The IkeSa struct UnmarshalMessage fills, with Name set by listSas.
UnmarshalIkeSa(m, name) ==
    [Name |-> name,
     UniqueID |-> StrField(m, "uniqueid"),
     Version |-> IntField(m, "version"),
     State |-> StrField(m, "state"),
     Initiator |-> StrField(m, "initiator"),
     NatLocal |-> StrField(m, "nat-local"),
     NatRemote |-> StrField(m, "nat-remote"),
     NatFake |-> StrField(m, "nat-fake"),
     NatAny |-> StrField(m, "nat-any"),
     EncAlg |-> StrField(m, "encr-alg"),
     EncKey |-> IntField(m, "encr-keysize"),
     IntegAlg |-> StrField(m, "integ-alg"),
     IntegKey |-> IntField(m, "integ-keysize"),
     DHGroup |-> StrField(m, "dh-group"),
     EstablishSec |-> IntField(m, "established"),
     RekeySec |-> IntField(m, "rekey-time"),
     ReauthSec |-> IntField(m, "reauth-time"),
     Children |-> UnmarshalChildren(Get(m, "child-sas"))]

\* Whether UnmarshalMessage(m, &crt) returns no error.
CrtKeys == {"type", "flags", "data"}

CrtOK(m) == \A e \in 1..Len(m.kv) : m.kv[e].k \in CrtKeys => StrOK(m.kv[e].v)

\* The Crt struct UnmarshalMessage fills.
UnmarshalCrt(m) ==
    [Type |-> StrField(m, "type"),
     Flags |-> StrField(m, "flags"),
     Data |-> StrField(m, "data")]

----------------------------------------------------------------------------
\* Samples sent on the metrics channel.

Sample(metric, labels, value) ==
    [metric |-> metric, labels |-> labels, value |-> value]

RECURSIVE Join(_, _)
\* strings.Join(elems, sep)
Join(elems, sep) ==
    IF Len(elems) = 0 THEN ""
    ELSE IF Len(elems) = 1 THEN elems[1]
    ELSE elems[1] \o sep \o Join(Tail(elems), sep)

tunnelInstalled == 0
connectionEstablished == 1
down == 2
unknown == 3

viciBoolToInt(v) == IF v = "yes" THEN 1 ELSE 0

\* viciStateToInt without the case of "REKEYED".
viciStateToIntNoRekeyed(v) ==
    CASE v = "ESTABLISHED" -> connectionEstablished
      [] v = "INSTALLED" -> tunnelInstalled
      [] v = "REKEYING" -> tunnelInstalled
      [] v = "" -> down
      [] OTHER -> unknown

viciStateToInt(v) ==
    CASE v = "ESTABLISHED" -> connectionEstablished
      [] v = "INSTALLED" -> tunnelInstalled
      [] v = "REKEYED" -> tunnelInstalled
      [] v = "REKEYING" -> tunnelInstalled
      [] v = "" -> down
      [] OTHER -> unknown

\* The 13 samples of one tunnel, in the order they are sent.
collectIkeMetrics(ikeSa) ==
    LET id == <<ikeSa.Name, ikeSa.UniqueID>>
    IN  << Sample("ike_version", id, ikeSa.Version),
           Sample("ike_status", id, viciStateToInt(ikeSa.State)),
           Sample("ike_initiator", id, viciBoolToInt(ikeSa.Initiator)),
           Sample("ike_nat_local", id, viciBoolToInt(ikeSa.NatLocal)),
           Sample("ike_nat_remote", id, viciBoolToInt(ikeSa.NatRemote)),
           Sample("ike_nat_fake", id, viciBoolToInt(ikeSa.NatFake)),
           Sample("ike_nat_any", id, viciBoolToInt(ikeSa.NatAny)),
           Sample("ike_encryption_key_size",
                  id \o <<ikeSa.EncAlg, ikeSa.DHGroup>>, ikeSa.EncKey),
           Sample("ike_integrity_key_size",
                  id \o <<ikeSa.IntegAlg, ikeSa.DHGroup>>, ikeSa.IntegKey),
           Sample("ike_established_seconds", id, ikeSa.EstablishSec),
           Sample("ike_rekey_seconds", id, ikeSa.RekeySec),
           Sample("ike_reauth_seconds", id, ikeSa.ReauthSec),
           Sample("ike_children_size", id, Len(ikeSa.Children)) >>

\* The 13 samples of one child association of the tunnel (name, uniqueID).
collectIkeChildMetrics(name, uniqueID, childIkeSa) ==
    LET localTSs == Join(childIkeSa.LocalTS, ";")
        remoteTSs == Join(childIkeSa.RemoteTS, ";")
        id == <<name, uniqueID, childIkeSa.Name, childIkeSa.UniqueID>>
        ts == id \o <<localTSs, remoteTSs>>
    IN  << Sample("sa_status", ts, viciStateToInt(childIkeSa.State)),
           Sample("sa_encap", id, viciBoolToInt(childIkeSa.Encap)),
           Sample("sa_encryption_key_size",
                  id \o <<childIkeSa.EncAlg, childIkeSa.DHGroup>>,
                  childIkeSa.EncKey),
           Sample("sa_integrity_key_size",
                  id \o <<childIkeSa.IntegAlg, childIkeSa.DHGroup>>,
                  childIkeSa.IntegKey),
           Sample("sa_inbound_bytes", ts, childIkeSa.BytesIn),
           Sample("sa_inbound_packets", ts, childIkeSa.PacketsIn),
           Sample("sa_last_inbound_seconds", ts, childIkeSa.LastInSec),
           Sample("sa_outbound_bytes", ts, childIkeSa.BytesOut),
           Sample("sa_outbound_packets", ts, childIkeSa.PacketsOut),
           Sample("sa_last_outbound_seconds", ts, childIkeSa.LastOutSec),
           Sample("sa_established_seconds", id, childIkeSa.EstablishSec),
           Sample("sa_rekey_seconds", id, childIkeSa.RekeySec),
           Sample("sa_lifetime_seconds", id, childIkeSa.LifetimeSec) >>

ikeCnt(n) == Sample("ike_count", <<>>, n)
crtCnt(n) == Sample("crt_count", <<>>, n)

----------------------------------------------------------------------------
\* Certificates.  The DER bytes of a record are opaque to the Collector;
\* x509.ParseCertificate either yields the certificate they encode or fails.

CertDB ==
    [d \in {"derA", "derB"} |->
        IF d = "derA"
        THEN [SerialNumber |-> 1, Subject |-> "CN=Test,O=Org1",
              NotBefore |-> 1, NotAfter |-> 3,
              DNSNames |-> <<>>, EmailAddresses |-> <<>>,
              IPAddresses |-> <<>>, URIs |-> <<>>]
        ELSE [SerialNumber |-> 291, Subject |-> "CN=Test2,O=Org2",
              NotBefore |-> 0, NotAfter |-> 2,
              DNSNames |-> <<"a", "b">>, EmailAddresses |-> <<>>,
              IPAddresses |-> <<>>, URIs |-> <<"u1">>]]

ParseOK(data) == data \in DOMAIN CertDB
ParseCertificate(data) == CertDB[data]

\* t.Format(time.RFC3339) of an instant of the model's clock.
RFC3339(t) == "1970-01-01T00:00:0" \o ToString(t) \o "Z"

\* Prefixed with the tag put once, in front of the group.
PrefixedFirstOnly(tag, names) ==
    IF Len(names) = 0 THEN <<>>
    ELSE <<tag \o names[1]>> \o Tail(names)

RECURSIVE Prefixed(_, _)
\* The names of one group, each behind the group's tag.
Prefixed(tag, names) ==
    IF Len(names) = 0 THEN <<>>
    ELSE <<tag \o names[1]>> \o Prefixed(tag, Tail(names))

\* AppendMerged without the check for an empty group.
AppendMergedAlways(altNames, merged) == Append(altNames, merged)

\* append(altNames, merged) unless merged is empty.
AppendMerged(altNames, merged) ==
    IF merged # "" THEN Append(altNames, merged) ELSE altNames

alternateNames(cert) ==
    LET dnsMerged == Join(Prefixed("DNS=", cert.DNSNames), "+")
        emailsMerged == Join(Prefixed("EM=", cert.EmailAddresses), "+")
        ipsMerged == Join(Prefixed("IP=", cert.IPAddresses), "+")
        urisMerged == Join(Prefixed("URI=", cert.URIs), "+")
    IN  Join(AppendMerged(AppendMerged(AppendMerged(AppendMerged(<<>>,
             dnsMerged), emailsMerged), ipsMerged), urisMerged), ",")

\* A nil *big.Int.
NilSerial == -1

HexDigit ==
    <<"0", "1", "2", "3", "4", "5", "6", "7", "8", "9",
      "a", "b", "c", "d", "e", "f">>

RECURSIVE SprintfHex(_)
\* fmt.Sprintf("%x", sn): the digits of sn in base 16, lowercase, as runes.
SprintfHex(sn) ==
    IF sn < 16 THEN <<HexDigit[sn + 1]>>
    ELSE Append(SprintfHex(sn \div 16), HexDigit[(sn % 16) + 1])

RECURSIVE WriteRunes(_, _)
\* The loop of formatHexStrWithColons from the rune at index i on.
WriteRunes(hexStr, i) ==
    IF i >= Len(hexStr) THEN <<>>
    ELSE (IF i > 0 /\ i % 2 = 0 THEN <<":">> ELSE <<>>)
         \o <<hexStr[i + 1]>> \o WriteRunes(hexStr, i + 1)

\* formatHexStrWithColons without the padding of an odd number of digits.
formatHexStrNoPad(hexStr) == Join(WriteRunes(hexStr, 0), "")

formatHexStrWithColons(hexStr) ==
    LET padded == IF Len(hexStr) % 2 # 0 THEN <<"0">> \o hexStr ELSE hexStr
    IN  Join(WriteRunes(padded, 0), "")

formatSerialNumber(sn) ==
    IF sn = NilSerial THEN "" ELSE formatHexStrWithColons(SprintfHex(sn))

\* The label values of the two samples of a certificate.
crtLabels(cert) ==
    << ToString(cert.SerialNumber),
       cert.Subject,
       alternateNames(cert),
       RFC3339(cert.NotBefore),
       RFC3339(cert.NotAfter) >>

\* crtValidAt with the two ends of the validity period counted as valid.
crtValidAtInclusive(cert, now) ==
    IF now >= cert.NotBefore /\ now <= cert.NotAfter THEN 1 ELSE 0

\* now.After(NotBefore) && now.Before(NotAfter)
crtValidAt(cert, now) ==
    IF now > cert.NotBefore /\ now < cert.NotAfter THEN 1 ELSE 0

\* crtExpireAt stopping at 0 once the certificate has expired.
crtExpireAtClamped(cert, now) ==
    IF cert.NotAfter > now THEN cert.NotAfter - now ELSE 0

\* cert.NotAfter.Sub(now).Seconds()
crtExpireAt(cert, now) == cert.NotAfter - now

\* crtSamples without the check of the type: every record is parsed.
crtSamplesAnyType(crt, now) ==
    IF ~ParseOK(crt.Data) THEN <<>>
    ELSE LET cert == ParseCertificate(crt.Data)
         IN  << Sample("crt_valid", crtLabels(cert), crtValidAt(cert, now)),
                Sample("crt_expire_secs", crtLabels(cert),
                       crtExpireAt(cert, now)) >>

\* One iteration of the loop of collectCrtMetrics: the samples it sends for
\* crt, given the instant the validity is computed against.
crtSamples(crt, now) ==
    IF crt.Type # "X509" THEN <<>>
    ELSE IF ~ParseOK(crt.Data) THEN <<>>
    ELSE LET cert == ParseCertificate(crt.Data)
         IN  << Sample("crt_valid", crtLabels(cert), crtValidAt(cert, now)),
                Sample("crt_expire_secs", crtLabels(cert),
                       crtExpireAt(cert, now)) >>

\* The label values of the two samples of a certificate of CertsCollector.
certLabels(cert) ==
    << formatSerialNumber(cert.SerialNumber),
       cert.Subject,
       RFC3339(cert.NotBefore),
       RFC3339(cert.NotAfter) >>

certCnt(n) == Sample("cert_count", <<>>, n)

\* One iteration of the loop of collectCertMetrics; valid and expireIn are
\* computed as collectCrtMetrics computes them.
certSamples(crt, now) ==
    IF crt.Type # "X509" THEN <<>>
    ELSE IF ~ParseOK(crt.Data) THEN <<>>
    ELSE LET cert == ParseCertificate(crt.Data)
         IN  << Sample("cert_valid", certLabels(cert), crtValidAt(cert, now)),
                Sample("cert_expire_secs", certLabels(cert),
                       crtExpireAt(cert, now)) >>

\* crtCounted with x509Crts++ ahead of the parsing.
crtCountedUnparsed(crt) == IF crt.Type = "X509" THEN 1 ELSE 0

\* x509Crts++ of the same iteration.
crtCounted(crt) == IF crt.Type = "X509" /\ ParseOK(crt.Data) THEN 1 ELSE 0

----------------------------------------------------------------------------
\* The responses the daemon may stream.

ChildNet ==
    Msg(<< KV("name", Str("net")), KV("uniqueid", Str("7")),
           KV("state", Str("INSTALLED")), KV("encap", Str("yes")),
           KV("bytes-in", Str("5")),
           KV("local-ts", Lst(<<"10.0.0.0/24", "10.0.1.0/24">>)),
           KV("remote-ts", Lst(<<"10.1.0.0/24">>)) >>)

ChildHost ==
    Msg(<< KV("name", Str("host")), KV("uniqueid", Str("5")),
           KV("state", Str("REKEYING")) >>)

TunnelA ==
    Msg(<< KV("uniqueid", Str("1")), KV("version", Str("2")),
           KV("state", Str("ESTABLISHED")), KV("initiator", Str("yes")),
           KV("encr-alg", Str("AES_CBC")), KV("encr-keysize", Str("2")),
           KV("child-sas",
              Msg(<<KV("net-1", ChildNet), KV("host-2", ChildHost)>>)) >>)

TunnelC == Msg(<< KV("uniqueid", Str("2")), KV("state", Str("CONNECTING")) >>)

TunnelD == Msg(<< KV("uniqueid", Str("5")) >>)

\* uniqueid is a sub-tree where a scalar is expected.
TunnelBadField == Msg(<< KV("uniqueid", Msg(<<>>)), KV("version", Str("2")) >>)

SasErrRec == Msg(<< KV("success", Str("no")), KV("errmsg", Str("some error")) >>)
SasRecEmpty == Msg(<<>>)
SasRecA == Msg(<< KV("ike-a", TunnelA) >>)
SasRecBadField ==
    Msg(<< KV("ike-c", TunnelC), KV("ike-b", TunnelBadField),
           KV("ike-d", TunnelD) >>)
SasRecScalar ==
    Msg(<< KV("ike-c", TunnelC), KV("ike-s", Str("x")), KV("ike-d", TunnelD) >>)

SasRecords == {SasErrRec, SasRecEmpty, SasRecA, SasRecBadField, SasRecScalar}

CrtErrRec == Msg(<< KV("success", Str("no")), KV("errmsg", Str("some error")) >>)
CrtRecA == Msg(<< KV("type", Str("X509")), KV("data", Str("derA")) >>)
CrtRecGarbage == Msg(<< KV("type", Str("X509")), KV("data", Str("123")) >>)
CrtRecOCSP == Msg(<< KV("type", Str("OCSP_RESPONSE")), KV("data", Str("derB")) >>)
\* type is a list where a scalar is expected.
CrtRecBadField == Msg(<< KV("type", Lst(<<"X509">>)), KV("data", Str("derA")) >>)
CrtRecB == Msg(<< KV("type", Str("X509")), KV("data", Str("derB")) >>)
\* No type at all: Crt.Type stays the empty string.
CrtRecNoType == Msg(<< KV("data", Str("derA")) >>)

CrtRecords ==
    {CrtErrRec, CrtRecA, CrtRecGarbage, CrtRecOCSP, CrtRecBadField, CrtRecB,
     CrtRecNoType}

\* The sequences of at most n elements of S.
SeqsUpTo(S, n) == UNION {[1..len -> S] : len \in 0..n}

SasResponses == SeqsUpTo(SasRecords, MaxMsgs)
CrtResponses == SeqsUpTo(CrtRecords, MaxMsgs)

\* One response for each way listSas / listCrts can end.
SasResponsesFew == {<<>>, <<SasRecA>>, <<SasRecScalar>>}
CrtResponsesFew == {<<>>, <<CrtRecA>>, <<CrtErrRec>>, <<CrtRecBadField>>}

----------------------------------------------------------------------------
\* listSas and listCrts: what one record of the response does to the result.

\* listSasKey without the continue after a decode error: the zero-valued
\* tunnel is appended.
listSasKeyNoContinue(m, k, acc) ==
    IF acc.panic THEN acc
    ELSE IF Get(m, k).t # "msg" THEN [panic |-> TRUE, res |-> acc.res]
    ELSE [panic |-> FALSE,
          res |-> Append(acc.res,
                         IF IkeSaOK(Get(m, k))
                         THEN UnmarshalIkeSa(Get(m, k), k)
                         ELSE UnmarshalIkeSa(Msg(<<>>), k))]

\* listSasKey without ikeSa.Name = k: Name keeps its zero value.
listSasKeyNoName(m, k, acc) ==
    IF acc.panic THEN acc
    ELSE IF Get(m, k).t # "msg" THEN [panic |-> TRUE, res |-> acc.res]
    ELSE IF ~IkeSaOK(Get(m, k)) THEN acc
    ELSE [panic |-> FALSE,
          res |-> Append(acc.res, UnmarshalIkeSa(Get(m, k), ""))]

\* One key of a success record: m.Get(k).(*vici.Message) panics on a node
\* that is no message; a message that fails to decode is skipped.
listSasKey(m, k, acc) ==
    IF acc.panic THEN acc
    ELSE IF Get(m, k).t # "msg" THEN [panic |-> TRUE, res |-> acc.res]
    ELSE IF ~IkeSaOK(Get(m, k)) THEN acc
    ELSE [panic |-> FALSE,
          res |-> Append(acc.res, UnmarshalIkeSa(Get(m, k), k))]

RECURSIVE listSasKeys(_, _, _)
\* The loop over m.Keys() from key n on.
listSasKeys(m, n, acc) ==
    IF n > Len(m.kv) THEN acc
    ELSE listSasKeys(m, n + 1, listSasKey(m, Keys(m)[n], acc))

\* One iteration of the loop over msgs in listSas.
listSasMsg(m, res) ==
    IF MsgErr(m) THEN [panic |-> FALSE, res |-> res]
    ELSE listSasKeys(m, 1, [panic |-> FALSE, res |-> res])

\* listCrtsMsg going on with the next record after an error record, as
\* listSas does.
listCrtsMsgSkipsErr(m, res) ==
    IF MsgErr(m) THEN [out |-> "", res |-> res]
    ELSE IF ~CrtOK(m) THEN [out |-> "decodeErr", res |-> <<>>]
    ELSE [out |-> "", res |-> Append(res, UnmarshalCrt(m))]

\* One iteration of the loop over msgs in listCrts: go on with the next
\* record, or return.  On a decode error the returned err is the nil of
\* m.Err(), so the caller sees (nil, nil).
listCrtsMsg(m, res) ==
    IF MsgErr(m) THEN [out |-> "recordErr", res |-> <<>>]
    ELSE IF ~CrtOK(m) THEN [out |-> "decodeErr", res |-> <<>>]
    ELSE [out |-> "", res |-> Append(res, UnmarshalCrt(m))]

\* One iteration of the loop over msgs in CertsCollector.listCerts: an error
\* record ends the listing with its error; a record whose type is not the
\* string "X509" is passed over before it is decoded; a decode error
\* returns the nil err of m.Err().  Cert carries Type and Data as Crt does.
listCertsMsg(m, res) ==
    IF MsgErr(m) THEN [out |-> "recordErr", res |-> <<>>]
    ELSE IF Get(m, "type") # Str("X509") THEN [out |-> "", res |-> res]
    ELSE IF ~CrtOK(m) THEN [out |-> "decodeErr", res |-> <<>>]
    ELSE [out |-> "", res |-> Append(res, UnmarshalCrt(m))]

\* Whether listSas / listCrts returned a non-nil error.
sasFailed(out) == out \in {"factoryErr", "requestErr"}
crtsFailed(out) == out \in {"factoryErr", "requestErr", "recordErr"}

----------------------------------------------------------------------------
\* The branches of Collect.

\* listSas returned an error: both counts are sent as 0 and Collect returns.
collectSasErr(ch) == ch \o <<ikeCnt(0), crtCnt(0)>>

\* collectSasOK sending no ike_count.
collectSasOKNoCount(ch, sas) == ch

\* listSas returned sas.
collectSasOK(ch, sas) == Append(ch, ikeCnt(Len(sas)))

\* collectCrtsErr sending what the listSas error branch sends, alone.
collectCrtsErrLikeSas(ch) == <<ikeCnt(0), crtCnt(0)>>

\* listCrts returned an error.
collectCrtsErr(ch) == Append(ch, crtCnt(0))

----------------------------------------------------------------------------
\* State.

IdleProc ==
    [pc |-> "idle", op |-> "none", s |-> 0,
     sasOut |-> "", sasMsgs |-> <<>>, res |-> <<>>,
     crtsOut |-> "", crtsMsgs |-> <<>>, crts |-> <<>>,
     i |-> 0, j |-> 0, todo |-> {}, now |-> 0, x509Crts |-> 0,
     ch |-> <<>>, checkErr |-> FALSE,
     factoryCalls |-> 0, requests |-> 0, nowReads |-> 0, closeErr |-> FALSE,
     sn |-> 0, names |-> <<>>, out |-> "", certsEnabled |-> TRUE]

Init ==
    /\ sessions = <<>>
    /\ clock = 0
    /\ ops = 0
    /\ proc = [p \in Procs |-> IdleProc]

\* The locals of a call of goroutine p that has not started.  certsEnabled
\* is what the caller of NewCollector asked for; it stays what it was.
Idle(p) == [IdleProc EXCEPT !.certsEnabled = proc[p].certsEnabled]

\* An unrecovered panic ends the program.
Alive == \A q \in Procs : proc[q].pc # "panicked"

\* viciClientFn() returning a client to p, with a nil error iff ok.
Acquire(p, ok) == Append(sessions, [owner |-> p, ok |-> ok, closes |-> 0])

\* s.Close()
Close(sid) == [sessions EXCEPT ![sid].closes = @ + 1]

\* Set with the tunnel list kept in a field of the Collector, which every
\* call in progress sees.
SetSharedRes(p, r) ==
    proc' = [q \in Procs |-> IF q = p THEN r ELSE [proc[q] EXCEPT !.res = r.res]]

\* The locals of p's call become r; the calls of other goroutines have
\* their own.
Set(p, r) == proc' = [proc EXCEPT ![p] = r]

----------------------------------------------------------------------------
\* Collect.

CollectStart(p) ==
    /\ Alive /\ proc[p].pc = "idle" /\ ops < MaxOps
    /\ ops' = ops + 1
    /\ Set(p, [Idle(p) EXCEPT !.pc = "listSas", !.op = "Collect"])
    /\ UNCHANGED <<sessions, clock>>

ListSasFactory(p) ==
    /\ Alive /\ proc[p].pc = "listSas"
    /\ \E err \in BOOLEAN :
        /\ sessions' = Acquire(p, ~err)
        /\ IF err
           THEN Set(p, [proc[p] EXCEPT !.pc = "sasReturned",
                                       !.s = Len(sessions) + 1,
                                       !.factoryCalls = @ + 1,
                                       !.sasOut = "factoryErr"])
           ELSE Set(p, [proc[p] EXCEPT !.pc = "sasRequest",
                                       !.factoryCalls = @ + 1,
                                       !.s = Len(sessions) + 1])
    /\ UNCHANGED <<clock, ops>>

\* ListSasRequestErr returning before Close is deferred.
ListSasRequestErrNoClose(p) ==
    /\ Alive /\ proc[p].pc = "sasRequest"
    /\ Set(p, [proc[p] EXCEPT !.pc = "sasReturned", !.requests = @ + 1,
                              !.sasOut = "requestErr"])
    /\ UNCHANGED <<sessions, clock, ops>>

ListSasRequestErr(p) ==
    /\ Alive /\ proc[p].pc = "sasRequest"
    /\ sessions' = Close(proc[p].s)
    /\ Set(p, [proc[p] EXCEPT !.pc = "sasReturned", !.requests = @ + 1,
                              !.sasOut = "requestErr"])
    /\ UNCHANGED <<clock, ops>>

\* The daemon answers list-sas with one of the responses of R.
ListSasRequest(p, R) ==
    /\ Alive /\ proc[p].pc = "sasRequest"
    /\ \E msgs \in R :
        Set(p, [proc[p] EXCEPT !.pc = "sasLoop", !.requests = @ + 1,
                               !.sasMsgs = msgs, !.i = 1])
    /\ UNCHANGED <<sessions, clock, ops>>

ListSasRecord(p) ==
    /\ Alive /\ proc[p].pc = "sasLoop" /\ proc[p].i <= Len(proc[p].sasMsgs)
    /\ LET r == listSasMsg(proc[p].sasMsgs[proc[p].i], proc[p].res)
       IN  IF r.panic
           THEN /\ sessions' = Close(proc[p].s)
                /\ Set(p, [proc[p] EXCEPT !.pc = "panicked",
                                          !.sasOut = "panic"])
           ELSE /\ Set(p, [proc[p] EXCEPT !.res = r.res, !.i = @ + 1])
                /\ UNCHANGED sessions
    /\ UNCHANGED <<clock, ops>>

\* ListSasReturn leaving the session open.
ListSasReturnNoClose(p) ==
    /\ Alive /\ proc[p].pc = "sasLoop" /\ proc[p].i > Len(proc[p].sasMsgs)
    /\ Set(p, [proc[p] EXCEPT !.pc = "sasReturned", !.sasOut = "ok"])
    /\ UNCHANGED <<sessions, clock, ops>>

ListSasReturn(p) ==
    /\ Alive /\ proc[p].pc = "sasLoop" /\ proc[p].i > Len(proc[p].sasMsgs)
    /\ sessions' = Close(proc[p].s)
    /\ Set(p, [proc[p] EXCEPT !.pc = "sasReturned", !.sasOut = "ok"])
    /\ UNCHANGED <<clock, ops>>

CollectSas(p) ==
    /\ Alive /\ proc[p].pc = "sasReturned"
    /\ IF sasFailed(proc[p].sasOut)
       THEN Set(p, [proc[p] EXCEPT !.pc = "done",
                                   !.ch = collectSasErr(@)])
       ELSE Set(p, [proc[p] EXCEPT !.pc = "ikeLoop", !.j = 1,
                                   !.ch = collectSasOK(@, proc[p].res)])
    /\ UNCHANGED <<sessions, clock, ops>>

CollectIke(p) ==
    /\ Alive /\ proc[p].pc = "ikeLoop" /\ proc[p].j <= Len(proc[p].res)
    /\ LET ikeSa == proc[p].res[proc[p].j]
       IN  IF Len(ikeSa.Children) = 0
           THEN Set(p, [proc[p] EXCEPT !.j = @ + 1,
                                       !.ch = @ \o collectIkeMetrics(ikeSa)])
           ELSE Set(p, [proc[p] EXCEPT !.pc = "childLoop",
                                       !.todo = 1..Len(ikeSa.Children),
                                       !.ch = @ \o collectIkeMetrics(ikeSa)])
    /\ UNCHANGED <<sessions, clock, ops>>

\* CollectChild labelling every child with the first tunnel of the listing.
CollectChildFirstTunnel(p) ==
    /\ Alive /\ proc[p].pc = "childLoop"
    /\ LET ikeSa == proc[p].res[proc[p].j]
           first == proc[p].res[1]
       IN  \E c \in proc[p].todo :
            LET left == proc[p].todo \ {c}
                out == proc[p].ch \o collectIkeChildMetrics(
                           first.Name, first.UniqueID, ikeSa.Children[c].c)
            IN  IF left = {}
                THEN Set(p, [proc[p] EXCEPT !.pc = "ikeLoop", !.j = @ + 1,
                                            !.todo = {}, !.ch = out])
                ELSE Set(p, [proc[p] EXCEPT !.todo = left, !.ch = out])
    /\ UNCHANGED <<sessions, clock, ops>>

\* range over the Children map: the next entry is any entry not yet visited.
CollectChild(p) ==
    /\ Alive /\ proc[p].pc = "childLoop"
    /\ LET ikeSa == proc[p].res[proc[p].j]
       IN  \E c \in proc[p].todo :
            LET left == proc[p].todo \ {c}
                out == proc[p].ch \o collectIkeChildMetrics(
                           ikeSa.Name, ikeSa.UniqueID, ikeSa.Children[c].c)
            IN  IF left = {}
                THEN Set(p, [proc[p] EXCEPT !.pc = "ikeLoop", !.j = @ + 1,
                                            !.todo = {}, !.ch = out])
                ELSE Set(p, [proc[p] EXCEPT !.todo = left, !.ch = out])
    /\ UNCHANGED <<sessions, clock, ops>>

ListCrtsFactory(p) ==
    /\ Alive /\ proc[p].pc = "ikeLoop" /\ proc[p].j > Len(proc[p].res)
    /\ \E err \in BOOLEAN :
        /\ sessions' = Acquire(p, ~err)
        /\ IF err
           THEN Set(p, [proc[p] EXCEPT !.pc = "crtsReturned",
                                       !.s = Len(sessions) + 1,
                                       !.factoryCalls = @ + 1,
                                       !.crtsOut = "factoryErr"])
           ELSE Set(p, [proc[p] EXCEPT !.pc = "crtsRequest",
                                       !.factoryCalls = @ + 1,
                                       !.s = Len(sessions) + 1])
    /\ UNCHANGED <<clock, ops>>

ListCrtsRequestErr(p) ==
    /\ Alive /\ proc[p].pc = "crtsRequest"
    /\ sessions' = Close(proc[p].s)
    /\ Set(p, [proc[p] EXCEPT !.pc = "crtsReturned", !.requests = @ + 1,
                              !.crtsOut = "requestErr"])
    /\ UNCHANGED <<clock, ops>>

\* The daemon answers list-certs with one of the responses of R.
ListCrtsRequest(p, R) ==
    /\ Alive /\ proc[p].pc = "crtsRequest"
    /\ \E msgs \in R :
        Set(p, [proc[p] EXCEPT !.pc = "crtsLoop", !.requests = @ + 1,
                               !.crtsMsgs = msgs, !.i = 1])
    /\ UNCHANGED <<sessions, clock, ops>>

ListCrtsRecord(p) ==
    /\ Alive /\ proc[p].pc = "crtsLoop" /\ proc[p].i <= Len(proc[p].crtsMsgs)
    /\ LET r == listCrtsMsg(proc[p].crtsMsgs[proc[p].i], proc[p].crts)
       IN  IF r.out # ""
           THEN /\ sessions' = Close(proc[p].s)
                /\ Set(p, [proc[p] EXCEPT !.pc = "crtsReturned",
                                          !.crtsOut = r.out, !.crts = r.res])
           ELSE /\ Set(p, [proc[p] EXCEPT !.crts = r.res, !.i = @ + 1])
                /\ UNCHANGED sessions
    /\ UNCHANGED <<clock, ops>>

ListCrtsReturn(p) ==
    /\ Alive /\ proc[p].pc = "crtsLoop" /\ proc[p].i > Len(proc[p].crtsMsgs)
    /\ sessions' = Close(proc[p].s)
    /\ Set(p, [proc[p] EXCEPT !.pc = "crtsReturned", !.crtsOut = "ok"])
    /\ UNCHANGED <<clock, ops>>

\* Collect after listCrts: the error branch, or the start of
\* collectCrtMetrics, which reads the clock once.
CollectCrts(p) ==
    /\ Alive /\ proc[p].pc = "crtsReturned"
    /\ IF crtsFailed(proc[p].crtsOut)
       THEN Set(p, [proc[p] EXCEPT !.pc = "done",
                                   !.ch = collectCrtsErr(@)])
       ELSE Set(p, [proc[p] EXCEPT !.pc = "crtLoop", !.i = 1,
                                   !.x509Crts = 0, !.now = clock,
                                   !.nowReads = @ + 1])
    /\ UNCHANGED <<sessions, clock, ops>>

\* CollectCrt with time.Now() called again for each certificate.
CollectCrtRereadsClock(p) ==
    /\ Alive /\ proc[p].pc = "crtLoop" /\ proc[p].i <= Len(proc[p].crts)
    /\ LET crt == proc[p].crts[proc[p].i]
       IN  Set(p, [proc[p] EXCEPT !.i = @ + 1,
                                  !.x509Crts = @ + crtCounted(crt),
                                  !.nowReads = @ + 1,
                                  !.ch = @ \o crtSamples(crt, clock)])
    /\ UNCHANGED <<sessions, clock, ops>>

CollectCrt(p) ==
    /\ Alive /\ proc[p].pc = "crtLoop" /\ proc[p].i <= Len(proc[p].crts)
    /\ LET crt == proc[p].crts[proc[p].i]
       IN  Set(p, [proc[p] EXCEPT !.i = @ + 1,
                                  !.x509Crts = @ + crtCounted(crt),
                                  !.ch = @ \o crtSamples(crt, proc[p].now)])
    /\ UNCHANGED <<sessions, clock, ops>>

CollectCrtCount(p) ==
    /\ Alive /\ proc[p].pc = "crtLoop" /\ proc[p].i > Len(proc[p].crts)
    /\ Set(p, [proc[p] EXCEPT !.pc = "done",
                              !.ch = Append(@, crtCnt(proc[p].x509Crts))])
    /\ UNCHANGED <<sessions, clock, ops>>

----------------------------------------------------------------------------
\* CertsCollector.Collect.

CertsCollectStart(p) ==
    /\ Alive /\ proc[p].pc = "idle" /\ ops < MaxOps
    /\ ops' = ops + 1
    /\ Set(p, [Idle(p) EXCEPT !.pc = "listCerts", !.op = "CertsCollect"])
    /\ UNCHANGED <<sessions, clock>>

ListCertsFactory(p) ==
    /\ Alive /\ proc[p].pc = "listCerts"
    /\ \E err \in BOOLEAN :
        /\ sessions' = Acquire(p, ~err)
        /\ IF err
           THEN Set(p, [proc[p] EXCEPT !.pc = "certsReturned",
                                       !.s = Len(sessions) + 1,
                                       !.factoryCalls = @ + 1,
                                       !.crtsOut = "factoryErr"])
           ELSE Set(p, [proc[p] EXCEPT !.pc = "certsRequest",
                                       !.factoryCalls = @ + 1,
                                       !.s = Len(sessions) + 1])
    /\ UNCHANGED <<clock, ops>>

ListCertsRequestErr(p) ==
    /\ Alive /\ proc[p].pc = "certsRequest"
    /\ sessions' = Close(proc[p].s)
    /\ Set(p, [proc[p] EXCEPT !.pc = "certsReturned", !.requests = @ + 1,
                              !.crtsOut = "requestErr"])
    /\ UNCHANGED <<clock, ops>>

ListCertsRequest(p, R) ==
    /\ Alive /\ proc[p].pc = "certsRequest"
    /\ \E msgs \in R :
        Set(p, [proc[p] EXCEPT !.pc = "certsLoop", !.requests = @ + 1,
                               !.crtsMsgs = msgs, !.i = 1])
    /\ UNCHANGED <<sessions, clock, ops>>

ListCertsRecord(p) ==
    /\ Alive /\ proc[p].pc = "certsLoop" /\ proc[p].i <= Len(proc[p].crtsMsgs)
    /\ LET r == listCertsMsg(proc[p].crtsMsgs[proc[p].i], proc[p].crts)
       IN  IF r.out # ""
           THEN /\ sessions' = Close(proc[p].s)
                /\ Set(p, [proc[p] EXCEPT !.pc = "certsReturned",
                                          !.crtsOut = r.out, !.crts = r.res])
           ELSE /\ Set(p, [proc[p] EXCEPT !.crts = r.res, !.i = @ + 1])
                /\ UNCHANGED sessions
    /\ UNCHANGED <<clock, ops>>

ListCertsReturn(p) ==
    /\ Alive /\ proc[p].pc = "certsLoop" /\ proc[p].i > Len(proc[p].crtsMsgs)
    /\ sessions' = Close(proc[p].s)
    /\ Set(p, [proc[p] EXCEPT !.pc = "certsReturned", !.crtsOut = "ok"])
    /\ UNCHANGED <<clock, ops>>

\* Collect after listCerts: the error branch, or the count of the listed
\* certificates and the start of collectCertMetrics, which reads the clock.
CertsCollect(p) ==
    /\ Alive /\ proc[p].pc = "certsReturned"
    /\ IF crtsFailed(proc[p].crtsOut)
       THEN Set(p, [proc[p] EXCEPT !.pc = "done", !.ch = Append(@, certCnt(0))])
       ELSE Set(p, [proc[p] EXCEPT !.pc = "certLoop", !.i = 1,
                                   !.now = clock, !.nowReads = @ + 1,
                                   !.ch = Append(@, certCnt(Len(proc[p].crts)))])
    /\ UNCHANGED <<sessions, clock, ops>>

CollectCert(p) ==
    /\ Alive /\ proc[p].pc = "certLoop" /\ proc[p].i <= Len(proc[p].crts)
    /\ LET crt == proc[p].crts[proc[p].i]
       IN  Set(p, [proc[p] EXCEPT !.i = @ + 1,
                                  !.ch = @ \o certSamples(crt, proc[p].now)])
    /\ UNCHANGED <<sessions, clock, ops>>

CollectCertsReturn(p) ==
    /\ Alive /\ proc[p].pc = "certLoop" /\ proc[p].i > Len(proc[p].crts)
    /\ Set(p, [proc[p] EXCEPT !.pc = "done"])
    /\ UNCHANGED <<sessions, clock, ops>>

----------------------------------------------------------------------------
\* Check.

CheckFactory(p) ==
    /\ Alive /\ proc[p].pc = "idle" /\ ops < MaxOps
    /\ ops' = ops + 1
    /\ \E err \in BOOLEAN :
        /\ sessions' = Acquire(p, ~err)
        /\ IF err
           THEN Set(p, [Idle(p) EXCEPT !.pc = "done", !.op = "Check",
                                        !.s = Len(sessions) + 1,
                                        !.factoryCalls = 1,
                                        !.checkErr = TRUE])
           ELSE Set(p, [Idle(p) EXCEPT !.pc = "checkClose", !.op = "Check",
                                        !.factoryCalls = 1,
                                        !.s = Len(sessions) + 1])
    /\ UNCHANGED clock

\* CheckClose returning the error of Close to the caller of Check.
CheckCloseReturnsErr(p) ==
    /\ Alive /\ proc[p].pc = "checkClose"
    /\ sessions' = Close(proc[p].s)
    /\ \E closeErr \in BOOLEAN :
        Set(p, [proc[p] EXCEPT !.pc = "done", !.closeErr = closeErr,
                               !.checkErr = closeErr])
    /\ UNCHANGED <<clock, ops>>

\* _ = s.Close(); return nil: whatever Close returns is dropped.
CheckClose(p) ==
    /\ Alive /\ proc[p].pc = "checkClose"
    /\ sessions' = Close(proc[p].s)
    /\ \E closeErr \in BOOLEAN :
        Set(p, [proc[p] EXCEPT !.pc = "done", !.closeErr = closeErr])
    /\ UNCHANGED <<clock, ops>>

\* The call has returned to its caller.
Return(p) ==
    /\ Alive /\ proc[p].pc = "done"
    /\ Set(p, Idle(p))
    /\ UNCHANGED <<sessions, clock, ops>>

\* Time passes.  Only collectCrtMetrics reads the clock, so the model lets
\* it advance where that can be seen: before the clock is read and while
\* certificates are left to project.
Tick ==
    /\ Alive /\ clock < MaxClock
    /\ \E q \in Procs :
        \/ proc[q].pc = "crtsReturned" /\ ~crtsFailed(proc[q].crtsOut)
        \/ proc[q].pc = "crtLoop" /\ proc[q].i <= Len(proc[q].crts)
        \/ proc[q].pc = "certsReturned" /\ ~crtsFailed(proc[q].crtsOut)
    /\ clock' = clock + 1
    /\ UNCHANGED <<sessions, ops, proc>>

Step(p, SasR, CrtR) ==
    \/ CollectStart(p)
    \/ ListSasFactory(p)
    \/ ListSasRequestErr(p)
    \/ ListSasRequest(p, SasR)
    \/ ListSasRecord(p)
    \/ ListSasReturn(p)
    \/ CollectSas(p)
    \/ CollectIke(p)
    \/ CollectChild(p)
    \/ ListCrtsFactory(p)
    \/ ListCrtsRequestErr(p)
    \/ ListCrtsRequest(p, CrtR)
    \/ ListCrtsRecord(p)
    \/ ListCrtsReturn(p)
    \/ CollectCrts(p)
    \/ CollectCrt(p)
    \/ CollectCrtCount(p)
    \/ CheckFactory(p)
    \/ CheckClose(p)
    \/ Return(p)

\* Scrapes and health checks of one goroutine over every list-sas response.
Next == (\E p \in Serial : Step(p, SasResponses, CrtResponsesFew)) \/ Tick

Spec == Init /\ [][Next]_vars

\* The same over every list-certs response.
NextCrt == (\E p \in Serial : Step(p, SasResponsesFew, CrtResponses)) \/ Tick

SpecCrt == Init /\ [][NextCrt]_vars

\* Responses of success records, which may repeat a key.
SasResponsesPairs == SeqsUpTo({SasRecA, SasRecBadField}, MaxMsgs)

\* Listings of two X509 certificates, distinct or the same one twice.
CrtResponsesTwo == {<<CrtRecA, CrtRecB>>, <<CrtRecA, CrtRecA>>}

NextSas ==
    (\E p \in Serial : Step(p, SasResponsesPairs, CrtResponsesTwo)) \/ Tick

SpecSas == Init /\ [][NextSas]_vars

StepCerts(p, CrtR) ==
    \/ CertsCollectStart(p)
    \/ ListCertsFactory(p)
    \/ ListCertsRequestErr(p)
    \/ ListCertsRequest(p, CrtR)
    \/ ListCertsRecord(p)
    \/ ListCertsReturn(p)
    \/ CertsCollect(p)
    \/ CollectCert(p)
    \/ CollectCertsReturn(p)

\* Scrapes of the Collector and of the CertsCollector, one after another.
NextCerts ==
    \/ \E p \in Serial : Step(p, SasResponsesFew, CrtResponsesFew)
    \/ \E p \in Serial : StepCerts(p, CrtResponses)
    \/ Tick

SpecCerts == Init /\ [][NextCerts]_vars

\* A Collector built with certificate metrics asked for or not.
InitToggle ==
    /\ sessions = <<>>
    /\ clock = 0
    /\ ops = 0
    /\ \E b \in BOOLEAN :
        proc = [p \in Procs |-> [IdleProc EXCEPT !.certsEnabled = b]]

NextToggle ==
    (\E p \in Serial : Step(p, SasResponsesFew, CrtResponsesFew)) \/ Tick

SpecToggle == InitToggle /\ [][NextToggle]_vars

\* The state tokens the daemon may report: the ones viciStateToInt names,
\* the empty token, and others.
StateTokens ==
    {"ESTABLISHED", "INSTALLED", "REKEYED", "REKEYING", "", "CONNECTING",
     "established"}

\* The state field of a tunnel or child: absent, or one of the tokens.
StateFields == {<<>>} \cup {<<KV("state", Str(v))>> : v \in StateTokens}

\* A tunnel with one child, with the given state fields.
TunnelWith(sf, csf) ==
    Msg(<<KV("uniqueid", Str("1"))>> \o sf \o
        <<KV("child-sas",
             Msg(<<KV("c-1", Msg(<<KV("name", Str("c")),
                                   KV("uniqueid", Str("7"))>> \o csf))>>))>>)

\* One tunnel in every state with an installed child, and an established
\* tunnel with its child in every state.
SasResponsesState ==
    {<<Msg(<<KV("ike-s", TunnelWith(sf, <<KV("state", Str("INSTALLED"))>>))>>)>> :
        sf \in StateFields}
    \cup
    {<<Msg(<<KV("ike-s", TunnelWith(<<KV("state", Str("ESTABLISHED"))>>, csf))>>)>> :
        csf \in StateFields}

\* Scrapes and health checks of one goroutine over tunnels and children in
\* every state.
NextState ==
    (\E p \in Serial : Step(p, SasResponsesState, CrtResponsesFew)) \/ Tick

SpecState == Init /\ [][NextState]_vars

----------------------------------------------------------------------------
\* The two formatting functions, applied to arguments of their own.

\* The serial numbers of TestFormatSerialNumber, and every one up to
\* MaxSerial.
SerialNumbers == (0..MaxSerial) \cup {48879, 11259375, NilSerial}

\* The alternate names a certificate may carry, group by group.
DNSNamesOf == SeqsUpTo({"a", "b"}, MaxNames)
EmailAddressesOf == SeqsUpTo({"e@x"}, MaxNames)
IPAddressesOf == SeqsUpTo({"10.0.0.1"}, MaxNames)
URIsOf == SeqsUpTo({"u1", "u2"}, MaxNames)

\* formatSerialNumber(sn) called on one serial number.
FormatSerial(p) ==
    /\ Alive /\ proc[p].pc = "idle" /\ ops < MaxOps
    /\ ops' = ops + 1
    /\ \E sn \in SerialNumbers :
        Set(p, [Idle(p) EXCEPT !.pc = "done", !.op = "formatSerialNumber",
                                !.sn = sn, !.out = formatSerialNumber(sn)])
    /\ UNCHANGED <<sessions, clock>>

\* alternateNames(cert) called on one certificate.
FormatNames(p) ==
    /\ Alive /\ proc[p].pc = "idle" /\ ops < MaxOps
    /\ ops' = ops + 1
    /\ \E dns \in DNSNamesOf, em \in EmailAddressesOf,
          ip \in IPAddressesOf, uri \in URIsOf :
        Set(p, [Idle(p) EXCEPT
                   !.pc = "done", !.op = "alternateNames",
                   !.names = <<dns, em, ip, uri>>,
                   !.out = alternateNames([DNSNames |-> dns,
                                           EmailAddresses |-> em,
                                           IPAddresses |-> ip,
                                           URIs |-> uri])])
    /\ UNCHANGED <<sessions, clock>>

NextFormat == \E p \in Serial : FormatSerial(p) \/ FormatNames(p) \/ Return(p)

SpecFormat == Init /\ [][NextFormat]_vars

\* The responses of the concurrent runs: a tunnel with two children or no
\* tunnel, one certificate or none.
SasResponsesConc == {<<SasRecA>>, <<SasRecEmpty>>}
CrtResponsesConc == {<<CrtRecA>>, <<>>}

\* Scrapes and health checks of two goroutines on the one Collector, as the
\* HTTP server runs them, in every interleaving.
NextConc ==
    (\E p \in Procs : Step(p, SasResponsesConc, CrtResponsesConc)) \/ Tick

SpecConc == Init /\ [][NextConc]_vars

----------------------------------------------------------------------------
\* Vocabulary of the properties.

\* p's Collect has returned normally.
Scraped(p) == proc[p].op = "Collect" /\ proc[p].pc = "done"

CrtMetrics == {"crt_count", "crt_valid", "crt_expire_secs"}

CrtSamplesOf(ch) == SelectSeq(ch, LAMBDA x : x.metric \in CrtMetrics)
IkeSamplesOf(ch) == SelectSeq(ch, LAMBDA x : x.metric \notin CrtMetrics)
Named(ch, metric) == SelectSeq(ch, LAMBDA x : x.metric = metric)

RangeOf(seq) == {seq[n] : n \in 1..Len(seq)}

\* A node under a tunnel key that decodes as a tunnel.
Decodes(node) == node.t = "msg" /\ IkeSaOK(node)

\* The tunnels of a response: every decodable key of every success record,
\* in response order.
TunnelsOf(msgs) ==
    LET of(m) ==
            LET good == SelectSeq(m.kv, LAMBDA e : Decodes(e.v))
            IN  [e \in 1..Len(good) |-> UnmarshalIkeSa(good[e].v, good[e].k)]
        RECURSIVE from(_)
        from(n) ==
            IF n > Len(msgs) THEN <<>>
            ELSE IF MsgErr(msgs[n]) THEN from(n + 1)
            ELSE of(msgs[n]) \o from(n + 1)
    IN  from(1)

\* The number of keys of the success records of a response that decode.
RECURSIVE DecodedKeysOf(_)
DecodedKeysOf(msgs) ==
    IF Len(msgs) = 0 THEN 0
    ELSE (IF MsgErr(msgs[1]) THEN 0
          ELSE Len(SelectSeq(msgs[1].kv, LAMBDA e : Decodes(e.v))))
         + DecodedKeysOf(Tail(msgs))

\* The number of keys of the success records of a response.
RECURSIVE KeysOf(_)
KeysOf(msgs) ==
    IF Len(msgs) = 0 THEN 0
    ELSE (IF MsgErr(msgs[1]) THEN 0 ELSE Len(msgs[1].kv)) + KeysOf(Tail(msgs))

\* The samples a list of tunnels is projected to, children included.
TunnelSamples(sas) ==
    UNION {RangeOf(collectIkeMetrics(sas[j])) \cup
           UNION {RangeOf(collectIkeChildMetrics(sas[j].Name, sas[j].UniqueID,
                                                 sas[j].Children[c].c)) :
                  c \in 1..Len(sas[j].Children)} : j \in 1..Len(sas)}

RECURSIVE ChildrenIn(_)
ChildrenIn(sas) ==
    IF Len(sas) = 0 THEN 0 ELSE Len(sas[1].Children) + ChildrenIn(Tail(sas))

HasErrRecord(msgs) == \E n \in 1..Len(msgs) : MsgErr(msgs[n])

\* The sessions p holds open.
OpenOf(p) ==
    {sid \in 1..Len(sessions) :
        /\ sessions[sid].owner = p
        /\ sessions[sid].ok
        /\ sessions[sid].closes = 0}

\* The clients the factory returned with a nil error.
Acquired == {sid \in 1..Len(sessions) : sessions[sid].ok}

Quiescent == \A p \in Procs : proc[p].pc \in {"idle", "done", "panicked"}

----------------------------------------------------------------------------
\* C1: when the tunnel fetch of a scrape fails, the certificate fetch of the
\* same scrape still proceeds (factory called, list-certs issued) and the
\* certificate samples are those of the certificate listing.
C1_CrtFetchAfterSasFailure ==
    \A p \in Procs :
        Scraped(p) /\ sasFailed(proc[p].sasOut) => proc[p].crtsOut # ""

\* C2: when the certificate fetch fails (factory or list-certs request), the
\* scrape sends crt_count = 0 and no crt_valid / crt_expire sample, and its
\* tunnel samples are the ones the list-sas response alone determines, the
\* same as when the certificate fetch succeeds.
C2_CrtFailureIsolated ==
    \A p \in Procs :
        Scraped(p) /\ proc[p].sasOut = "ok" =>
            LET sas == TunnelsOf(proc[p].sasMsgs)
                ike == IkeSamplesOf(proc[p].ch)
            IN  /\ RangeOf(ike) = {ikeCnt(Len(sas))} \cup TunnelSamples(sas)
                /\ Len(ike) = 1 + 13 * Len(sas) + 13 * ChildrenIn(sas)
                /\ proc[p].crtsOut \in {"factoryErr", "requestErr"} =>
                       CrtSamplesOf(proc[p].ch) = <<crtCnt(0)>>

C2_Witness ==
    \E p \in Procs :
        /\ Scraped(p)
        /\ proc[p].sasMsgs = <<SasRecA, SasRecBadField>>
        /\ proc[p].crtsOut = "requestErr"

\* C3: every session the factory returned successfully is closed exactly
\* once, whatever the exit path of the fetch step, and a session not yet
\* closed is the one its owner is using; Close is never called after a
\* failed acquisition; when no call is in progress the number of Close
\* calls equals the number of successful acquisitions.
C3_ClosedExactlyOnce ==
    /\ \A sid \in 1..Len(sessions) :
        /\ sessions[sid].closes <= 1
        /\ ~sessions[sid].ok => sessions[sid].closes = 0
        /\ sessions[sid].ok /\ sessions[sid].closes = 0 =>
               /\ proc[sessions[sid].owner].s = sid
               /\ proc[sessions[sid].owner].pc \in
                      {"sasRequest", "sasLoop", "crtsRequest", "crtsLoop",
                       "checkClose"}
    /\ Quiescent => \A sid \in Acquired : sessions[sid].closes = 1

C3_Witness ==
    /\ Quiescent
    /\ Cardinality(Acquired) = 2
    /\ \E sid \in 1..Len(sessions) : ~sessions[sid].ok
    /\ \A sid \in Acquired : sessions[sid].closes = 1
    /\ \E p \in Procs : proc[p].op = "Check"

\* C4: within one scrape the list-sas session is closed before any sample
\* is sent and before the list-certs session is acquired; a scrape never
\* holds more than one open session.
C4_OneSessionAtATime ==
    \A p \in Procs :
        /\ Cardinality(OpenOf(p)) <= 1
        /\ proc[p].pc \in {"sasReturned", "ikeLoop", "childLoop",
                           "crtsReturned", "crtLoop", "done"} =>
               OpenOf(p) = {}
        /\ proc[p].ch # <<>> => OpenOf(p) \subseteq {proc[p].s}
        /\ proc[p].pc \in {"crtsRequest", "crtsLoop"} =>
               /\ OpenOf(p) = {proc[p].s}
               /\ \A sid \in Acquired \ {proc[p].s} : sessions[sid].closes = 1

C4_Witness ==
    \E p \in Procs :
        /\ proc[p].pc = "crtsLoop"
        /\ Len(proc[p].ch) > 1
        /\ proc[p].s = 2
        /\ sessions[1].ok /\ sessions[1].closes = 1
        /\ sessions[2].ok /\ sessions[2].closes = 0

\* C5: whatever fails (acquisition, request, error records, undecodable or
\* structurally wrong records, non-X509 records, unparsable certificates), a
\* scrape runs to completion and has sent exactly one ike_count and exactly
\* one crt_count sample.
C5_ScrapeAlwaysCompletes ==
    \A p \in Procs :
        /\ proc[p].pc # "panicked"
        /\ Scraped(p) =>
               /\ Len(Named(proc[p].ch, "ike_count")) = 1
               /\ Len(Named(proc[p].ch, "crt_count")) = 1

\* C6: a malformed tunnel record (a scalar under the tunnel key, or a field
\* of the wrong shape) is skipped alone: the scrape completes and every
\* sibling tunnel that decodes is projected with its 13 samples.
C6_MalformedTunnelSkippedAlone ==
    \A p \in Procs :
        /\ proc[p].pc # "panicked"
        /\ Scraped(p) /\ proc[p].sasOut = "ok" =>
               \A n \in 1..Len(proc[p].sasMsgs) :
                   LET m == proc[p].sasMsgs[n]
                   IN  ~MsgErr(m) =>
                           \A e \in 1..Len(m.kv) :
                               Decodes(m.kv[e].v) =>
                                   RangeOf(collectIkeMetrics(
                                       UnmarshalIkeSa(m.kv[e].v, m.kv[e].k)))
                                   \subseteq RangeOf(proc[p].ch)

\* C7: when any record of the list-sas response is an error record the
\* whole tunnel listing fails: ike_count is 0 and no tunnel of any record of
\* that response is projected.
C7_SasErrRecordAbortsListing ==
    \A p \in Procs :
        Scraped(p) /\ proc[p].sasOut = "ok"
                   /\ HasErrRecord(proc[p].sasMsgs) =>
            IkeSamplesOf(proc[p].ch) = <<ikeCnt(0)>>

\* C8: when any record of the list-certs response is an error record the
\* scrape sends crt_count = 0 and no crt_valid / crt_expire sample, also for
\* valid X509 records that precede the error record.
C8_CrtErrRecordAbortsListing ==
    \A p \in Procs :
        Scraped(p) /\ proc[p].crtsOut \notin {"", "factoryErr", "requestErr"}
                   /\ HasErrRecord(proc[p].crtsMsgs) =>
            CrtSamplesOf(proc[p].ch) = <<crtCnt(0)>>

C8_Witness ==
    \E p \in Procs :
        /\ Scraped(p)
        /\ proc[p].crtsMsgs = <<CrtRecA, CrtErrRec>>
        /\ proc[p].crtsOut = "recordErr"

\* The certificates of a response that decode, are X509 and parse.
RECURSIVE GoodCrts(_)
GoodCrts(msgs) ==
    IF Len(msgs) = 0 THEN 0
    ELSE (IF CrtOK(msgs[1]) /\ crtCounted(UnmarshalCrt(msgs[1])) = 1
          THEN 1 ELSE 0) + GoodCrts(Tail(msgs))

\* C9: a certificate record that fails to decode is skipped alone: the
\* certificates of the other records of the response, before and after it,
\* are still counted in crt_count and projected.
C9_UndecodableCrtSkippedAlone ==
    \A p \in Procs :
        Scraped(p) /\ proc[p].crtsOut \notin {"", "factoryErr", "requestErr"}
                   /\ ~HasErrRecord(proc[p].crtsMsgs) =>
            /\ Named(proc[p].ch, "crt_count") =
                   <<crtCnt(GoodCrts(proc[p].crtsMsgs))>>
            /\ Len(Named(proc[p].ch, "crt_valid")) = GoodCrts(proc[p].crtsMsgs)
            /\ Len(Named(proc[p].ch, "crt_expire_secs")) =
                   GoodCrts(proc[p].crtsMsgs)

\* C10 as stated: ike_count equals the number of keys in the field trees of
\* the success records of the response, and is 0 when the listing call
\* errors.
C10_IkeCountIsKeyCount ==
    \A p \in Procs :
        \A n \in 1..Len(proc[p].ch) :
            proc[p].ch[n].metric = "ike_count" =>
                proc[p].ch[n].value =
                    IF sasFailed(proc[p].sasOut) THEN 0
                    ELSE KeysOf(proc[p].sasMsgs)

\* C10 amended: every ike_count sample equals the number of keys of the
\* success records whose tunnel sub-tree decodes (a key that fails to decode
\* is skipped and not counted), and is 0 when the listing call errors.
C10_IkeCountIsDecodedKeyCount ==
    \A p \in Procs :
        \A n \in 1..Len(proc[p].ch) :
            proc[p].ch[n].metric = "ike_count" =>
                proc[p].ch[n].value =
                    IF sasFailed(proc[p].sasOut) THEN 0
                    ELSE DecodedKeysOf(proc[p].sasMsgs)

C10_Witness ==
    \E p \in Procs :
        /\ Scraped(p)
        /\ proc[p].sasMsgs = <<SasErrRec, SasRecBadField>>
        /\ ikeCnt(2) \in RangeOf(proc[p].ch)

----------------------------------------------------------------------------
\* C11: Check calls the factory exactly once and issues no streamed
\* request; it returns an error iff the factory did; it closes the client
\* once when the factory succeeded and never when it failed; an error
\* returned by Close does not make Check fail.
C11_CheckAcquiresAndReleases ==
    \A p \in Procs :
        proc[p].op = "Check" =>
            /\ proc[p].factoryCalls = 1
            /\ proc[p].requests = 0
            /\ sessions[proc[p].s].owner = p
            /\ proc[p].pc = "done" =>
                /\ proc[p].checkErr <=> ~sessions[proc[p].s].ok
                /\ sessions[proc[p].s].closes =
                       IF sessions[proc[p].s].ok THEN 1 ELSE 0

C11_Witness ==
    \E p \in Procs :
        /\ proc[p].op = "Check" /\ proc[p].pc = "done"
        /\ proc[p].closeErr /\ ~proc[p].checkErr
        /\ \E sid \in 1..Len(sessions) : ~sessions[sid].ok

----------------------------------------------------------------------------
\* What listCrts returns for a response, and what collectCrtMetrics sends
\* for it at the instant now.

RECURSIVE CrtsListedFrom(_, _, _)
CrtsListedFrom(msgs, n, acc) ==
    IF n > Len(msgs) THEN [out |-> "ok", res |-> acc]
    ELSE LET r == listCrtsMsg(msgs[n], acc)
         IN  IF r.out # "" THEN r ELSE CrtsListedFrom(msgs, n + 1, r.res)

CrtsListed(msgs) == CrtsListedFrom(msgs, 1, <<>>)

RECURSIVE CrtSamplesFrom(_, _, _, _)
CrtSamplesFrom(crts, n, now, cnt) ==
    IF n > Len(crts) THEN <<crtCnt(cnt)>>
    ELSE crtSamples(crts[n], now)
         \o CrtSamplesFrom(crts, n + 1, now, cnt + crtCounted(crts[n]))

CrtSamplesAlone(msgs, now) ==
    LET r == CrtsListed(msgs)
    IN  IF crtsFailed(r.out) THEN <<crtCnt(0)>>
        ELSE CrtSamplesFrom(r.res, 1, now, 0)

\* The first n records of a response.
Upto(msgs, n) == SubSeq(msgs, 1, n)

\* C12: calls running concurrently on one Collector are independent under
\* every interleaving: the session a call uses is one it acquired itself,
\* no session is closed twice, the tunnels a call has listed so far are the
\* ones of its own response, and a scrape sends exactly the samples its own
\* responses determine, as when it runs alone.
C12_ConcurrentCallsIndependent ==
    /\ \A sid \in 1..Len(sessions) : sessions[sid].closes <= 1
    /\ \A p \in Procs :
        /\ proc[p].s # 0 => sessions[proc[p].s].owner = p
        /\ proc[p].pc = "sasLoop" =>
               proc[p].res = TunnelsOf(Upto(proc[p].sasMsgs, proc[p].i - 1))
        /\ Scraped(p) /\ sasFailed(proc[p].sasOut) =>
               proc[p].ch = <<ikeCnt(0), crtCnt(0)>>
        /\ Scraped(p) /\ proc[p].sasOut = "ok" =>
            LET sas == TunnelsOf(proc[p].sasMsgs)
                ike == IkeSamplesOf(proc[p].ch)
            IN  /\ RangeOf(ike) = {ikeCnt(Len(sas))} \cup TunnelSamples(sas)
                /\ Len(ike) = 1 + 13 * Len(sas) + 13 * ChildrenIn(sas)
                /\ CrtSamplesOf(proc[p].ch) =
                       IF proc[p].crtsOut \in {"factoryErr", "requestErr"}
                       THEN <<crtCnt(0)>>
                       ELSE CrtSamplesAlone(proc[p].crtsMsgs, proc[p].now)

\* Two scrapes that overlapped, on different responses, have both returned.
C12_Witness ==
    /\ Scraped(1) /\ Scraped(2)
    /\ proc[1].sasMsgs = <<SasRecA>> /\ proc[2].sasMsgs = <<SasRecEmpty>>
    /\ proc[1].crtsMsgs = <<>> /\ proc[2].crtsMsgs = <<CrtRecA>>
    /\ Len(sessions) = 4
    /\ sessions[1].owner = 1 /\ sessions[2].owner = 2
    /\ sessions[3].owner = 1 /\ sessions[4].owner = 2

----------------------------------------------------------------------------
\* C13: two scrapes over identical response data (the same list-sas and
\* list-certs outcomes and records, the same captured now) send the
\* identical sequence of samples, in the same order, the per-child samples
\* of a tunnel with several children included.
C13_SameDataSameSamples ==
    \A p, q \in Procs :
        /\ Scraped(p) /\ Scraped(q)
        /\ proc[p].sasOut = proc[q].sasOut
        /\ proc[p].sasMsgs = proc[q].sasMsgs
        /\ proc[p].crtsOut = proc[q].crtsOut
        /\ proc[p].crtsMsgs = proc[q].crtsMsgs
        /\ proc[p].now = proc[q].now
        => proc[p].ch = proc[q].ch

----------------------------------------------------------------------------
\* Vocabulary of the certificate properties.

\* p's scrape has returned and its listCrts went through every record.
CrtsListedOK(p) == Scraped(p) /\ proc[p].crtsOut = "ok"

IsX509(m) == UnmarshalCrt(m).Type = "X509"
X509Parsable(m) == IsX509(m) /\ UnmarshalCrt(m).Data \in DOMAIN CertDB

\* The certificates of the X509 records of a response whose data parses,
\* in response order.
CertsOf(msgs) ==
    LET good == SelectSeq(msgs, X509Parsable)
    IN  [k \in 1..Len(good) |-> CertDB[UnmarshalCrt(good[k]).Data]]

\* C14: an X509 record whose data fails to parse is skipped alone: it
\* yields no crt_valid or crt_expire_secs sample and is not counted in
\* crt_count, and the other X509 records of the response, which parse, are
\* counted and projected (one unparsable and one parsable record give
\* crt_count = 1 and two per-certificate samples).
C14_UnparsableCrtSkippedAlone ==
    \A p \in Procs :
        CrtsListedOK(p) =>
            LET certs == CertsOf(proc[p].crtsMsgs)
                valid == Named(proc[p].ch, "crt_valid")
                expire == Named(proc[p].ch, "crt_expire_secs")
            IN  /\ Named(proc[p].ch, "crt_count") = <<crtCnt(Len(certs))>>
                /\ Len(valid) = Len(certs)
                /\ Len(expire) = Len(certs)
                /\ \A k \in 1..Len(certs) :
                    /\ valid[k].labels = crtLabels(certs[k])
                    /\ expire[k].labels = crtLabels(certs[k])

C14_Witness ==
    \E p \in Procs :
        /\ CrtsListedOK(p)
        /\ proc[p].crtsMsgs = <<CrtRecGarbage, CrtRecA>>
        /\ Named(proc[p].ch, "crt_count") = <<crtCnt(1)>>
        /\ Len(CrtSamplesOf(proc[p].ch)) = 3

\* C15: a decoded certificate record whose type is not "X509", an absent
\* type included, is excluded without error: the scrape sends exactly the
\* certificate samples it sends for the response without those records, so
\* the record adds nothing to crt_count, yields no sample and leaves the
\* samples of the other records unchanged.
C15_NonX509Excluded ==
    \A p \in Procs :
        CrtsListedOK(p) =>
            CrtSamplesOf(proc[p].ch) =
                CrtSamplesAlone(SelectSeq(proc[p].crtsMsgs, IsX509),
                                proc[p].now)

C15_Witness ==
    \E p \in Procs :
        /\ CrtsListedOK(p)
        /\ proc[p].crtsMsgs = <<CrtRecOCSP, CrtRecA>>
        /\ Len(CrtSamplesOf(proc[p].ch)) = 3

\* C16: crt_valid is 1 exactly when now is strictly after not-before and
\* strictly before not-after, and 0 otherwise; it is 0 when now equals
\* not-before or not-after.
C16_ValidIffStrictlyInside ==
    \A p \in Procs :
        CrtsListedOK(p) =>
            LET certs == CertsOf(proc[p].crtsMsgs)
                valid == Named(proc[p].ch, "crt_valid")
                now == proc[p].now
            IN  /\ Len(valid) = Len(certs)
                /\ \A k \in 1..Len(certs) :
                    /\ valid[k].value \in {0, 1}
                    /\ valid[k].value = 1 <=>
                           certs[k].NotBefore < now /\ now < certs[k].NotAfter
                    /\ now \in {certs[k].NotBefore, certs[k].NotAfter} =>
                           valid[k].value = 0

\* One scrape at the not-before of one certificate, inside the validity
\* period of another.
C16_Witness ==
    \E p \in Procs :
        /\ CrtsListedOK(p)
        /\ proc[p].crtsMsgs = <<CrtRecA, CrtRecB>>
        /\ proc[p].now = CertDB["derA"].NotBefore
        /\ Named(proc[p].ch, "crt_valid")[1].value = 0
        /\ Named(proc[p].ch, "crt_valid")[2].value = 1

\* C17: crt_expire_secs is not-after minus now in seconds, signed: positive
\* before the expiry, zero at not-after, negative after it (not-after
\* 2034-03-20T15:01:04Z at 2034-03-20T08:00:00Z gives 25264; not-after
\* 2025-10-22T18:59:10Z at 2025-10-23T00:00:00Z gives -18050); whenever
\* crt_valid is 1, crt_expire_secs is strictly positive.
C17_ExpireIsSignedDifference ==
    /\ crtExpireAt([NotAfter |-> 2026479664], 2026454400) = 25264
    /\ crtExpireAt([NotAfter |-> 1761159550], 1761177600) = 0 - 18050
    /\ \A p \in Procs :
        CrtsListedOK(p) =>
            LET certs == CertsOf(proc[p].crtsMsgs)
                valid == Named(proc[p].ch, "crt_valid")
                expire == Named(proc[p].ch, "crt_expire_secs")
                now == proc[p].now
            IN  /\ Len(expire) = Len(certs)
                /\ Len(valid) = Len(certs)
                /\ \A k \in 1..Len(certs) :
                    /\ expire[k].value + now = certs[k].NotAfter
                    /\ now < certs[k].NotAfter <=> expire[k].value > 0
                    /\ now > certs[k].NotAfter <=> expire[k].value < 0
                    /\ valid[k].value = 1 => expire[k].value > 0

\* One scrape at the not-after of one certificate, after that of another.
C17_Witness ==
    \E p \in Procs :
        /\ CrtsListedOK(p)
        /\ proc[p].crtsMsgs = <<CrtRecA, CrtRecB>>
        /\ Named(proc[p].ch, "crt_expire_secs")[1].value = 0
        /\ Named(proc[p].ch, "crt_expire_secs")[2].value < 0

\* C18: within one scrape the clock is read exactly once for the certificate
\* metrics, and the crt_valid and crt_expire_secs values of every
\* certificate of the scrape are those of that one instant, also when the
\* clock advances while the certificates are projected.
C18_OneClockReadPerScrape ==
    \A p \in Procs :
        /\ proc[p].nowReads <= 1
        /\ CrtsListedOK(p) =>
            LET certs == CertsOf(proc[p].crtsMsgs)
                valid == Named(proc[p].ch, "crt_valid")
                expire == Named(proc[p].ch, "crt_expire_secs")
            IN  /\ proc[p].nowReads = 1
                /\ Len(valid) = Len(certs) /\ Len(expire) = Len(certs)
                /\ \E t \in 0..clock :
                    \A k \in 1..Len(certs) :
                        /\ valid[k].value = crtValidAt(certs[k], t)
                        /\ expire[k].value = crtExpireAt(certs[k], t)

\* The clock advanced between the two certificates of a scrape.
C18_Witness ==
    \E p \in Procs :
        /\ CrtsListedOK(p)
        /\ proc[p].crtsMsgs = <<CrtRecA, CrtRecB>>
        /\ proc[p].now = 1 /\ clock = 3
        /\ Named(proc[p].ch, "crt_expire_secs")[2].value = 1

----------------------------------------------------------------------------
\* The decodable tunnel sub-trees of a response, as received, in response
\* order.
TunnelNodesOf(msgs) ==
    LET of(m) ==
            LET good == SelectSeq(m.kv, LAMBDA e : Decodes(e.v))
            IN  [e \in 1..Len(good) |-> good[e].v]
        RECURSIVE from(_)
        from(n) ==
            IF n > Len(msgs) THEN <<>>
            ELSE IF MsgErr(msgs[n]) THEN from(n + 1)
            ELSE of(msgs[n]) \o from(n + 1)
    IN  from(1)

\* The status the documentation gives for the state field of a tunnel or
\* child sub-tree.
StatusOfNode(node) ==
    IF ~HasKey(node, "state") THEN 2
    ELSE LET v == Get(node, "state").s
         IN  IF v = "" THEN 2
             ELSE IF v = "ESTABLISHED" THEN 1
             ELSE IF v \in {"INSTALLED", "REKEYED", "REKEYING"} THEN 0
             ELSE 3

\* The child sub-trees of a tunnel sub-tree.
ChildNodesOf(node) ==
    IF HasKey(node, "child-sas")
    THEN LET kv == Get(node, "child-sas").kv
         IN  {kv[c].v : c \in 1..Len(kv)}
    ELSE {}

\* C19: the mapping of the state token to the status is total and fixed:
\* "ESTABLISHED" gives 1; "INSTALLED", "REKEYED" and "REKEYING" give 0; the
\* empty or absent token gives 2; every other token gives 3; the status is
\* always one of 0, 1, 2, 3; ike_status of a tunnel and sa_status of a child
\* follow the same mapping.
C19_StatusMappingTotal ==
    \A p \in Procs :
        /\ \A n \in 1..Len(proc[p].ch) :
            proc[p].ch[n].metric \in {"ike_status", "sa_status"} =>
                proc[p].ch[n].value \in {0, 1, 2, 3}
        /\ Scraped(p) /\ proc[p].sasOut = "ok" =>
            LET nodes == TunnelNodesOf(proc[p].sasMsgs)
                ike == Named(proc[p].ch, "ike_status")
                sa == Named(proc[p].ch, "sa_status")
            IN  /\ Len(ike) = Len(nodes)
                /\ \A j \in 1..Len(nodes) :
                    /\ ike[j].value = StatusOfNode(nodes[j])
                    /\ \A c \in ChildNodesOf(nodes[j]) :
                        \E n \in 1..Len(sa) :
                            /\ sa[n].labels[2] = Get(nodes[j], "uniqueid").s
                            /\ sa[n].labels[4] = Get(c, "uniqueid").s
                            /\ sa[n].value = StatusOfNode(c)

\* An established tunnel with a rekeyed child.
C19_Witness ==
    \E p \in Procs :
        /\ Scraped(p)
        /\ proc[p].sasMsgs =
               <<Msg(<<KV("ike-s",
                       TunnelWith(<<KV("state", Str("ESTABLISHED"))>>,
                                  <<KV("state", Str("REKEYED"))>>))>>)>>
        /\ Named(proc[p].ch, "ike_status")[1].value = 1
        /\ Named(proc[p].ch, "sa_status")[1].value = 0

----------------------------------------------------------------------------
\* C20: the serial_number label of every crt_valid and crt_expire_secs
\* sample is the serial number of the certificate in the colon-separated
\* lowercase hexadecimal form (left-padded to an even number of digits, one
\* ':' between byte pairs).
C20_SerialLabelIsColonHex ==
    \A p \in Procs :
        CrtsListedOK(p) =>
            LET certs == CertsOf(proc[p].crtsMsgs)
                valid == Named(proc[p].ch, "crt_valid")
                expire == Named(proc[p].ch, "crt_expire_secs")
            IN  \A k \in 1..Len(certs) :
                    /\ valid[k].labels[1] =
                           formatSerialNumber(certs[k].SerialNumber)
                    /\ expire[k].labels[1] =
                           formatSerialNumber(certs[k].SerialNumber)

----------------------------------------------------------------------------
\* The hexadecimal digits of a natural number, most significant first.
HexDigitsOf(n) ==
    LET len == CHOOSE k \in 1..7 : (k = 1 \/ 16^(k - 1) <= n) /\ n < 16^k
    IN  [d \in 1..len |-> HexDigit[((n \div 16^(len - d)) % 16) + 1]]

\* A sequence of digits cut into byte pairs, a "0" put in front of an odd
\* number of digits.
BytePairsOf(digits) ==
    LET even == IF Len(digits) % 2 = 1 THEN <<"0">> \o digits ELSE digits
    IN  [b \in 1..(Len(even) \div 2) |-> even[2 * b - 1] \o even[2 * b]]

\* C21: formatSerialNumber maps a non-negative serial number to its
\* lowercase hexadecimal digits, left-padded with one "0" when their number
\* is odd, with exactly one ":" between consecutive byte pairs and none at
\* the ends (0 gives "00", 10 gives "0a", 291 gives "01:23", 48879 gives
\* "be:ef", 11259375 gives "ab:cd:ef"); a nil serial number gives the empty
\* string; an even number of digits is left unchanged by the colon
\* insertion.
C21_FormatSerialNumber ==
    \A p \in Procs :
        proc[p].op = "formatSerialNumber" =>
            LET sn == proc[p].sn
                out == proc[p].out
            IN  /\ sn = NilSerial => out = ""
                /\ sn >= 0 => out = Join(BytePairsOf(HexDigitsOf(sn)), ":")
                /\ sn = 0 => out = "00"
                /\ sn = 10 => out = "0a"
                /\ sn = 291 => out = "01:23"
                /\ sn = 48879 => out = "be:ef"
                /\ sn = 11259375 => out = "ab:cd:ef"

\* An odd number of digits, padded and split.
C21_Witness ==
    \E p \in Procs :
        /\ proc[p].op = "formatSerialNumber"
        /\ proc[p].sn = 291
        /\ proc[p].out = "01:23"

----------------------------------------------------------------------------
\* One group of alternate names: every name behind the tag, joined by "+".
GroupOf(tag, names) == Join([n \in 1..Len(names) |-> tag \o names[n]], "+")

\* C22: the alternate_names label is built from up to four groups in the
\* order DNS names, email addresses, IP addresses, URIs: every name is
\* prefixed by the tag of its group (DNS=, EM=, IP=, URI=), the members of
\* a group are joined by "+" in their original order, a group without a
\* member is omitted, the remaining groups are joined by ","; a
\* certificate without any alternate name gives the empty string.
C22_AlternateNamesFormat ==
    \A p \in Procs :
        proc[p].op = "alternateNames" =>
            LET n == proc[p].names
                all == << GroupOf("DNS=", n[1]), GroupOf("EM=", n[2]),
                          GroupOf("IP=", n[3]), GroupOf("URI=", n[4]) >>
                groups == SelectSeq(all, LAMBDA g : g # "")
            IN  /\ proc[p].out = Join(groups, ",")
                /\ Len(groups) = Cardinality({g \in 1..4 : Len(n[g]) > 0})
                /\ n = <<<<>>, <<>>, <<>>, <<>>>> => proc[p].out = ""

\* Three groups, one of them with two members, one group omitted.
C22_Witness ==
    \E p \in Procs :
        /\ proc[p].op = "alternateNames"
        /\ proc[p].names = << <<"b", "a">>, <<>>, <<"10.0.0.1">>, <<"u1">> >>
        /\ proc[p].out = "DNS=b+DNS=a,IP=10.0.0.1,URI=u1"

\* C23 as stated: DNS names [a, b], URIs [u1] and no email or IP alternate
\* name give exactly "DNS=a+b,URI=u1".
C23_ExampleAsStated ==
    \A p \in Procs :
        /\ proc[p].op = "alternateNames"
        /\ proc[p].names = << <<"a", "b">>, <<>>, <<>>, <<"u1">> >>
        => proc[p].out = "DNS=a+b,URI=u1"

\* C23, amended: DNS names [a, b], URIs [u1] and no email or IP alternate
\* name give exactly "DNS=a+DNS=b,URI=u1": every name carries the tag of its
\* group.
C23_ExampleWithTagPerName ==
    \A p \in Procs :
        /\ proc[p].op = "alternateNames"
        /\ proc[p].names = << <<"a", "b">>, <<>>, <<>>, <<"u1">> >>
        => proc[p].out = "DNS=a+DNS=b,URI=u1"

C23_Witness ==
    \E p \in Procs :
        /\ proc[p].op = "alternateNames" /\ proc[p].pc = "done"
        /\ proc[p].names = << <<"a", "b">>, <<>>, <<>>, <<"u1">> >>
        /\ proc[p].out = "DNS=a+DNS=b,URI=u1"

----------------------------------------------------------------------------
\* C24: the collector takes a boolean toggle for the certificate metrics:
\* when it is disabled a scrape does not run the certificate fetch (no
\* list-certs request) and sends no certificate sample, not even crt_count,
\* while its tunnel samples are those of the list-sas response; when it is
\* enabled crt_count is sent, 0 for an empty listing.
C24_ToggleDecidesCrtFetch ==
    \A p \in Procs :
        Scraped(p) /\ proc[p].sasOut = "ok" =>
            LET sas == TunnelsOf(proc[p].sasMsgs)
            IN  /\ RangeOf(IkeSamplesOf(proc[p].ch)) =
                       {ikeCnt(Len(sas))} \cup TunnelSamples(sas)
                /\ ~proc[p].certsEnabled =>
                    /\ proc[p].crtsOut = ""
                    /\ proc[p].requests = 1
                    /\ CrtSamplesOf(proc[p].ch) = <<>>
                /\ proc[p].certsEnabled /\ proc[p].crtsOut = "ok"
                   /\ proc[p].crtsMsgs = <<>> =>
                       CrtSamplesOf(proc[p].ch) = <<crtCnt(0)>>

----------------------------------------------------------------------------
\* The tunnels of the result of listSas that record m of the response gave:
\* the positions of res after those of the records before m.
FromRecord(p, m) ==
    LET before == Len(TunnelsOf(SubSeq(proc[p].sasMsgs, 1, m - 1)))
        upto == Len(TunnelsOf(SubSeq(proc[p].sasMsgs, 1, m)))
    IN  (before + 1) .. upto

\* C25 as stated: among the tunnels one list-sas listing produces for a
\* scrape no two have the same name, for every response including one made
\* of several success records.
C25_NamesUniqueInListing ==
    \A p \in Procs :
        Scraped(p) /\ proc[p].sasOut = "ok" =>
            \A i, j \in 1..Len(proc[p].res) :
                i # j => proc[p].res[i].Name # proc[p].res[j].Name

\* C25, amended: among the tunnels that one success record of a list-sas
\* listing produces no two have the same name (the key under which the
\* tunnel was nested); tunnels of different records may share a name.
C25_NamesUniqueInRecord ==
    \A p \in Procs :
        Scraped(p) /\ proc[p].sasOut = "ok" =>
            /\ Len(proc[p].res) = Len(TunnelsOf(proc[p].sasMsgs))
            /\ \A m \in 1..Len(proc[p].sasMsgs) :
                \A i, j \in FromRecord(p, m) :
                    i # j => proc[p].res[i].Name # proc[p].res[j].Name

C25_Witness ==
    \E p \in Procs :
        /\ Scraped(p) /\ proc[p].sasOut = "ok"
        /\ Len(proc[p].sasMsgs) = 2
        /\ FromRecord(p, 1) = {1, 2} /\ FromRecord(p, 2) = {3, 4}
        /\ proc[p].res[1].Name = proc[p].res[3].Name
        /\ proc[p].res[1].Name # proc[p].res[2].Name

----------------------------------------------------------------------------
\* The names of the per-child metrics.
ChildMetrics ==
    {x.metric :
        x \in RangeOf(collectIkeChildMetrics("", "", UnmarshalChild(Msg(<<>>))))}

ChildSamplesOf(ch) == SelectSeq(ch, LAMBDA x : x.metric \in ChildMetrics)

\* (key of the tunnel, its uniqueid, name of the child, its uniqueid) for
\* every child sub-tree nested in a tunnel sub-tree of a response.
ChildIdsOf(msgs) ==
    UNION {UNION {{<<m.kv[e].k, StrField(m.kv[e].v, "uniqueid"),
                     StrField(c, "name"), StrField(c, "uniqueid")>> :
                        c \in ChildNodesOf(m.kv[e].v)} :
                  e \in {e \in 1..Len(m.kv) : Decodes(m.kv[e].v)}} :
           m \in {m \in RangeOf(msgs) : ~MsgErr(m)}}

\* The position of the last ike_version sample ahead of position n, 0 when
\* there is none.
RECURSIVE TunnelAhead(_, _)
TunnelAhead(ch, n) ==
    IF n = 0 THEN 0
    ELSE IF ch[n].metric = "ike_version" THEN n
    ELSE TunnelAhead(ch, n - 1)

\* C26: every per-child sample carries as ike_name and ike_id the name and
\* uniqueID of exactly the tunnel under which the child was nested, next to
\* child_name and child_id: the child samples are labelled with the
\* (tunnel, child) pairs of the response and no others, and each follows
\* the samples of the tunnel whose name and id it carries.
C26_ChildCarriesParent ==
    \A p \in Procs :
        Scraped(p) /\ proc[p].sasOut = "ok" =>
            LET ch == proc[p].ch
                sa == ChildSamplesOf(ch)
            IN  /\ {SubSeq(sa[n].labels, 1, 4) : n \in 1..Len(sa)} =
                       ChildIdsOf(proc[p].sasMsgs)
                /\ \A n \in 1..Len(ch) :
                    ch[n].metric \in ChildMetrics =>
                        /\ TunnelAhead(ch, n) # 0
                        /\ ch[TunnelAhead(ch, n)].labels =
                               SubSeq(ch[n].labels, 1, 2)

C26_Witness ==
    \E p \in Procs :
        /\ Scraped(p) /\ proc[p].sasOut = "ok"
        /\ proc[p].sasMsgs = <<SasRecBadField, SasRecA>>
        /\ \E n \in 1..Len(proc[p].ch) :
            /\ proc[p].ch[n].metric = "sa_status"
            /\ SubSeq(proc[p].ch[n].labels, 1, 4) = <<"ike-a", "1", "host", "5">>

----------------------------------------------------------------------------
\* The number of child sub-trees nested in the tunnel sub-trees nodes.
RECURSIVE ChildNodeCount(_)
ChildNodeCount(nodes) ==
    IF Len(nodes) = 0 THEN 0
    ELSE (IF HasKey(nodes[1], "child-sas")
          THEN Len(Get(nodes[1], "child-sas").kv) ELSE 0)
         + ChildNodeCount(Tail(nodes))

PerTunnelOrChild(x) == x.metric \notin CrtMetrics \cup {"ike_count"}
PerCrt(x) == x.metric \in {"crt_valid", "crt_expire_secs"}

\* C27: a scrape in which both fetches succeed, with T projected tunnels
\* holding C children in total and X parsed X509 certificates, sends exactly
\* 2 + 13*T + 13*C + 2*X samples (two certificates alone give 6); a scrape
\* in which a fetch fails sends no per-record sample of that category.
C27_SampleCount ==
    \A p \in Procs :
        Scraped(p) =>
            LET nodes == TunnelNodesOf(proc[p].sasMsgs)
                T == Len(nodes)
                C == ChildNodeCount(nodes)
                X == Len(SelectSeq(proc[p].crtsMsgs, X509Parsable))
            IN  /\ proc[p].sasOut = "ok" /\ proc[p].crtsOut = "ok" =>
                    Len(proc[p].ch) = 2 + 13 * T + 13 * C + 2 * X
                /\ sasFailed(proc[p].sasOut) =>
                    SelectSeq(proc[p].ch, PerTunnelOrChild) = <<>>
                /\ sasFailed(proc[p].sasOut) \/ crtsFailed(proc[p].crtsOut) =>
                    SelectSeq(proc[p].ch, PerCrt) = <<>>

C27_Witness ==
    \E p \in Procs :
        /\ Scraped(p) /\ proc[p].sasOut = "ok" /\ proc[p].crtsOut = "ok"
        /\ Len(TunnelNodesOf(proc[p].sasMsgs)) = 1
        /\ ChildNodeCount(TunnelNodesOf(proc[p].sasMsgs)) = 2
        /\ Len(SelectSeq(proc[p].crtsMsgs, X509Parsable)) = 2
        /\ Len(proc[p].ch) = 45

----------------------------------------------------------------------------
\* The keys under which the tunnel sub-trees of a response that decode are
\* nested.
TunnelKeysOf(msgs) ==
    UNION {{m.kv[e].k : e \in {e \in 1..Len(m.kv) : Decodes(m.kv[e].v)}} :
           m \in {m \in RangeOf(msgs) : ~MsgErr(m)}}

\* The child-sas entries [k, v] of the tunnel sub-trees of a response.
ChildEntriesOf(msgs) ==
    LET nodes == TunnelNodesOf(msgs)
    IN  UNION {IF HasKey(nodes[n], "child-sas")
               THEN RangeOf(Get(nodes[n], "child-sas").kv) ELSE {} :
               n \in 1..Len(nodes)}

\* C28: ike_name is the key under which the tunnel's sub-tree is nested;
\* child_name is the value of the child's inner "name" field and not the key
\* under which the child is nested in child-sas.
C28_NamesFromKeyAndField ==
    \A p \in Procs :
        Scraped(p) /\ proc[p].sasOut = "ok" =>
            LET ike == SelectSeq(proc[p].ch, PerTunnelOrChild)
                sa == ChildSamplesOf(proc[p].ch)
                children == ChildEntriesOf(proc[p].sasMsgs)
            IN  /\ {ike[n].labels[1] : n \in 1..Len(ike)} =
                       TunnelKeysOf(proc[p].sasMsgs)
                /\ {sa[n].labels[3] : n \in 1..Len(sa)} =
                       {StrField(c.v, "name") : c \in children}

C28_Witness ==
    \E p \in Procs :
        /\ Scraped(p) /\ proc[p].sasOut = "ok"
        /\ \E c \in ChildEntriesOf(proc[p].sasMsgs) :
            /\ c.k = "c-1" /\ StrField(c.v, "name") = "c"
            /\ \E n \in 1..Len(proc[p].ch) :
                /\ proc[p].ch[n].metric = "sa_encap"
                /\ proc[p].ch[n].labels[1] = "ike-s"
                /\ proc[p].ch[n].labels[3] = "c"

----------------------------------------------------------------------------
\* A scrape of the CertsCollector that has returned.
CertsScraped(p) == proc[p].op = "CertsCollect" /\ proc[p].pc = "done"

\* The value of the one sample of a count metric.
CountOf(ch, metric) == Named(ch, metric)[1].value

\* C29: in every completed scrape ike_count equals the number of tunnels for
\* which per-tunnel samples are sent (the number of ike_version samples),
\* and the certificate count equals the number of validity samples and the
\* number of expiry samples, for the Collector and for the CertsCollector: a
\* skipped record is neither counted nor projected.
C29_CountsEqualProjected ==
    \A p \in Procs :
        /\ Scraped(p) =>
            /\ Len(Named(proc[p].ch, "ike_count")) = 1
            /\ Len(Named(proc[p].ch, "crt_count")) = 1
            /\ CountOf(proc[p].ch, "ike_count") =
                   Len(Named(proc[p].ch, "ike_version"))
            /\ CountOf(proc[p].ch, "crt_count") =
                   Len(Named(proc[p].ch, "crt_valid"))
            /\ CountOf(proc[p].ch, "crt_count") =
                   Len(Named(proc[p].ch, "crt_expire_secs"))
        /\ CertsScraped(p) =>
            /\ Len(Named(proc[p].ch, "cert_count")) = 1
            /\ CountOf(proc[p].ch, "cert_count") =
                   Len(Named(proc[p].ch, "cert_valid"))
            /\ CountOf(proc[p].ch, "cert_count") =
                   Len(Named(proc[p].ch, "cert_expire_secs"))

----------------------------------------------------------------------------
\* Tunnel uniqueIDs are unique within the listing and child uniqueIDs are
\* unique within their tunnel.
UniqueIDsDistinct(sas) ==
    /\ \A i, j \in 1..Len(sas) : i # j => sas[i].UniqueID # sas[j].UniqueID
    /\ \A j \in 1..Len(sas) :
        \A c, d \in 1..Len(sas[j].Children) :
            c # d => sas[j].Children[c].c.UniqueID # sas[j].Children[d].c.UniqueID

\* C30: within one scrape no two samples have both the same metric name and
\* the same label values, given that tunnel uniqueIDs are unique within the
\* list-sas response and child uniqueIDs within their tunnel, for every
\* list-certs response, one of several X509 records included.
C30_NoDuplicateSample ==
    \A p \in Procs :
        Scraped(p) /\ UniqueIDsDistinct(TunnelsOf(proc[p].sasMsgs)) =>
            \A m, n \in 1..Len(proc[p].ch) :
                m # n =>
                    \/ proc[p].ch[m].metric # proc[p].ch[n].metric
                    \/ proc[p].ch[m].labels # proc[p].ch[n].labels

====
